---- MODULE Spec2Model ----
(***************************************************************************)
(* StreetEasy monitor (scraper.py): one run of main() loads the seen-set   *)
(* file, scrapes the search page into listing records, computes the new    *)
(* listings, saves the updated seen-set and then e-mails the new listings. *)
(*                                                                         *)
(* Strings that the code takes apart (hrefs, URLs, identifiers) are        *)
(* sequences of tokens: "/" is a token of its own, a scheme ("https:") is  *)
(* one token, and every other token is a maximal run of characters without *)
(* "/".  Display texts (price, title, address) are atoms.                  *)
(***************************************************************************)
EXTENDS Integers, Sequences, FiniteSets, TLC

VARIABLES
    store,     \* the file seen_listings.json: missing, a JSON list, or unreadable text
    page,      \* <<d>> while the site serves the one document d, <<>> while it may serve any
    pc,        \* position of main(): "idle", "loaded", "scraped", "save", "notify"
    seen,      \* main's local seen_listings
    doc,       \* the document of this run's fetch (kept while pc = "scraped")
    current,   \* main's local current_listings
    origin,    \* for each record of current, the index in doc of its container
    new,       \* main's local new_listings
    fetch,     \* this run's fetch: "none", "ok", "failed"
    invoked,   \* this run's send_email call: "none", "sent", "send_failed", "no_credentials"
    before,    \* the store as it was when this run started
    flagged,   \* identifiers reported as new by the runs that ended so far
    log        \* how each ended run ended, oldest first

vars == <<store, page, pc, seen, doc, current, origin, new, fetch, invoked,
          before, flagged, log>>

-----------------------------------------------------------------------------
(* Bounds of the model *)

MaxCards == 2      \* divs in one document
MaxRuns == 2       \* runs of main()

(* Program constant: listing_elements[:20] *)
ListingCap == 20

-----------------------------------------------------------------------------
(* Strings as token sequences *)

\* 'https://streeteasy.com', the prefix of scraper.py line 121
SiteOrigin == <<"https:", "/", "/", "streeteasy.com">>

\* listing_url.startswith('http')
StartsWithHttp(s) == Len(s) > 0 /\ s[1] \in {"http:", "https:"}

\* '/building/' in str(x)
ContainsBuilding(s) ==
    \E i \in 1..(Len(s) - 2) : s[i] = "/" /\ s[i + 1] = "building" /\ s[i + 2] = "/"

\* str.split('/'): the segments between the separators, empty ones included
RECURSIVE SplitSlash(_)
SplitSlash(s) ==
    IF s = <<>> THEN << <<>> >>
    ELSE IF Head(s) = "/" THEN << <<>> >> \o SplitSlash(Tail(s))
    ELSE LET r == SplitSlash(Tail(s))
         IN  << <<Head(s)>> \o r[1] >> \o Tail(r)

\* if not listing_url.startswith('http'): listing_url = 'https://streeteasy.com' + listing_url
NormalizeUrl(href) == IF StartsWithHttp(href) THEN href ELSE SiteOrigin \o href

\* url_parts = listing_url.split('/'); listing_id = url_parts[-1] if url_parts else listing_url
ListingId(url) ==
    LET url_parts == SplitSlash(url)
    IN  IF url_parts # <<>> THEN url_parts[Len(url_parts)] ELSE url

-----------------------------------------------------------------------------
(* The document: the <div> elements of the fetched page, in document order. *)
(* Of each div the model keeps what scrape_listings looks at:               *)
(*   testid    - it has data-testid="listing-card"                          *)
(*   cardClass - its class contains 'ListingCard-module__cardContainer'     *)
(*   tags      - the texts of its <span data-testid="tag-text">             *)
(*   sponsored - it holds a <p> of class ...__sponsoredTag                  *)
(*   anchors   - its <a> elements: addrClass (class contains                *)
(*               ...__addressTextAction), hasHref, href, text               *)
(*   prices, titles, beds - the texts of the price, title and bed/bath      *)
(*               elements, in document order                                *)

Anchor(addrClass, hasHref, href, text) ==
    [addrClass |-> addrClass, hasHref |-> hasHref, href |-> href, text |-> text]

Div(testid, cardClass, tags, sponsored, anchors, prices, titles, beds) ==
    [testid |-> testid, cardClass |-> cardClass, tags |-> tags,
     sponsored |-> sponsored, anchors |-> anchors, prices |-> prices,
     titles |-> titles, beds |-> beds]

\* soup.find_all('div', {'data-testid': 'listing-card'})
PrimaryCards(d) == SelectSeq([i \in 1..Len(d) |-> i], LAMBDA i : d[i].testid)

\* soup.find_all('div', class_=lambda x: x and 'ListingCard-module__cardContainer' in str(x))
FallbackCards(d) == SelectSeq([i \in 1..Len(d) |-> i], LAMBDA i : d[i].cardClass)

\* Variant of ListingElements: the class-pattern matches are added whatever the
\* primary selector found.
ListingElementsBoth(d) == PrimaryCards(d) \o FallbackCards(d)

\* listing_elements: the fallback only if the primary selector found nothing
ListingElements(d) ==
    IF PrimaryCards(d) = <<>> THEN FallbackCards(d) ELSE PrimaryCards(d)

\* listing_elements[:20]
FirstN(s, n) == SubSeq(s, 1, IF Len(s) < n THEN Len(s) ELSE n)

\* Variant of Skipped: the sponsored footer is not looked at.
SkippedFeaturedOnly(e) == \E k \in 1..Len(e.tags) : e.tags[k] = "Featured"

\* featured_tag / sponsored_tag: the container is skipped
Skipped(e) ==
    \/ \E k \in 1..Len(e.tags) : e.tags[k] = "Featured"
    \/ e.sponsored

\* address_link: the first anchor of the address class, else the first anchor
\* whose href contains '/building/'; <<>> when there is none
AddressLink(e) ==
    LET byClass == SelectSeq(e.anchors, LAMBDA a : a.addrClass)
        byHref  == SelectSeq(e.anchors, LAMBDA a : a.hasHref /\ ContainsBuilding(a.href))
    IN  IF byClass # <<>> THEN <<byClass[1]>>
        ELSE IF byHref # <<>> THEN <<byHref[1]>>
        ELSE <<>>

\* " <bullet> ".join(beds_baths); the separator is the token " * "
RECURSIVE JoinBullet(_)
JoinBullet(texts) ==
    IF texts = <<>> THEN <<>>
    ELSE IF Len(texts) = 1 THEN <<texts[1]>>
    ELSE <<texts[1], " * ">> \o JoinBullet(Tail(texts))

\* truth value of a Python string: it is not empty
NonEmptyText(pieces) == \E k \in 1..Len(pieces) : pieces[k] # ""

\* full_title = f"{title_text} - {beds_baths_text}" if beds_baths_text else title_text
FullTitle(title_text, beds) ==
    IF NonEmptyText(JoinBullet(beds))
    THEN <<title_text, " - ">> \o JoinBullet(beds)
    ELSE <<title_text>>

\* The body of the for loop: the records (none or one) a container adds.
\* A link without href makes listing_url None; None.startswith raises, the
\* except clause of line 158 catches it and the container is skipped.
ParseElement(e) ==
    IF Skipped(e) THEN <<>>
    ELSE LET link == AddressLink(e)
         IN  IF link = <<>> THEN <<>>
             ELSE IF ~link[1].hasHref THEN <<>>
             ELSE LET listing_url  == NormalizeUrl(link[1].href)
                      address_text == link[1].text
                      price_text   == IF e.prices # <<>> THEN e.prices[1]
                                      ELSE "Price not found"
                      title_text   == IF e.titles # <<>> THEN e.titles[1]
                                      ELSE address_text
                  IN  << [id      |-> ListingId(listing_url),
                          url     |-> listing_url,
                          title   |-> FullTitle(title_text, e.beds),
                          price   |-> price_text,
                          address |-> address_text] >>

\* The for loop over the indices idxs of d: each emitted record with the
\* index of the container it came from.
RECURSIVE ParseAll(_, _)
ParseAll(d, idxs) ==
    IF idxs = <<>> THEN <<>>
    ELSE LET recs == ParseElement(d[Head(idxs)])
         IN  (IF recs = <<>> THEN <<>> ELSE << [rec |-> recs[1], src |-> Head(idxs)] >>)
             \o ParseAll(d, Tail(idxs))

\* scrape_listings on a fetched document
ScrapeListings(d) == ParseAll(d, FirstN(ListingElements(d), ListingCap))

RecordsOf(parsed) == [k \in 1..Len(parsed) |-> parsed[k].rec]
SourcesOf(parsed) == [k \in 1..Len(parsed) |-> parsed[k].src]

-----------------------------------------------------------------------------
(* The inputs: hrefs, containers and documents *)

RelNine       == <<"/", "building", "/", "x", "/", "9">>
AbsNine       == SiteOrigin \o RelNine
RelSeven      == <<"/", "building", "/", "y", "/", "7">>
RelSevenSlash == <<"/", "building", "/", "y", "/", "7", "/">>

Elements ==
    { \* a regular card: address link, price, title, beds
      Div(TRUE, TRUE, <<>>, FALSE, <<Anchor(TRUE, TRUE, RelNine, "51 1st Ave")>>,
          <<"$4,000">>, <<"East Village">>, <<"2 beds", "1 bath">>),
      \* a well-formed card tagged Featured
      Div(TRUE, TRUE, <<"Featured">>, FALSE, <<Anchor(TRUE, TRUE, RelSeven, "7 Pine St")>>,
          <<"$4,500">>, <<"FiDi">>, <<>>),
      \* a card with another tag, no price element
      Div(TRUE, FALSE, <<"New">>, FALSE, <<Anchor(TRUE, TRUE, RelSeven, "7 Pine St")>>,
          <<>>, <<"FiDi">>, <<>>),
      \* a card whose only link is a building link with a trailing slash
      Div(TRUE, FALSE, <<>>, FALSE, <<Anchor(FALSE, TRUE, RelSevenSlash, "7 Pine St")>>,
          <<"$4,500">>, <<>>, <<"">>),
      \* a card whose address link has no href
      Div(TRUE, FALSE, <<>>, FALSE,
          <<Anchor(TRUE, FALSE, <<>>, "51 1st Ave"), Anchor(FALSE, TRUE, RelNine, "51 1st Ave")>>,
          <<"$4,000">>, <<>>, <<>>),
      \* a card without links
      Div(TRUE, FALSE, <<>>, FALSE, <<>>, <<"$4,000">>, <<>>, <<>>),
      \* cards only the class pattern finds: regular (absolute URL), sponsored
      Div(FALSE, TRUE, <<>>, FALSE, <<Anchor(TRUE, TRUE, AbsNine, "51 1st Ave")>>,
          <<"$4,100">>, <<"East Village">>, <<>>),
      Div(FALSE, TRUE, <<>>, TRUE, <<Anchor(TRUE, TRUE, RelSeven, "7 Pine St")>>,
          <<"$4,500">>, <<"FiDi">>, <<>>),
      \* a div that is no listing card
      Div(FALSE, FALSE, <<>>, FALSE, <<Anchor(FALSE, TRUE, RelSeven, "7 Pine St")>>,
          <<>>, <<>>, <<>>) }

Docs == UNION { [1..n -> Elements] : n \in 0..MaxCards }

\* the identifiers a seen-set file left by earlier runs may hold at the start
InitiallySeen == { ListingId(NormalizeUrl(RelNine)) }

-----------------------------------------------------------------------------
(* The seen-set file *)

Missing    == [kind |-> "missing", ids |-> {}]
Stored(S)  == [kind |-> "ok", ids |-> S]       \* a complete JSON list of S
Corrupt    == [kind |-> "corrupt", ids |-> {}] \* truncated or partial text: no JSON

\* load_seen_listings when it returns: set(json.load(f)), or set() on FileNotFoundError
LoadedSet(file) == IF file.kind = "missing" THEN {} ELSE file.ids

-----------------------------------------------------------------------------
(* Change detection in main *)

IdsOf(records) == { records[k].id : k \in 1..Len(records) }

\* Variant of NewListings: the seen-set is updated before the membership test.
NewListingsAfterUpdate(current_listings, seen_listings) ==
    SelectSeq(current_listings,
              LAMBDA listing : listing.id \notin (seen_listings \cup IdsOf(current_listings)))

\* for listing in current_listings: if listing['id'] not in seen_listings: new_listings.append(listing)
NewListings(current_listings, seen_listings) ==
    SelectSeq(current_listings, LAMBDA listing : listing.id \notin seen_listings)

\* Variants of UpdatedSeen: the update is forgotten; the current identifiers
\* replace the set instead of joining it.
UpdatedSeenForgotten(current_listings, seen_listings) == seen_listings
UpdatedSeenReplaced(current_listings, seen_listings) == IdsOf(current_listings)

\* current_ids.add(listing['id']) ...; seen_listings.update(current_ids)
UpdatedSeen(current_listings, seen_listings) ==
    seen_listings \cup IdsOf(current_listings)

\* Variant of NoListings: main has no early return.
NoListingsNever(current_listings) == FALSE

\* if not current_listings: ...; return
NoListings(current_listings) == current_listings = <<>>

\* how send_email can end: sent, an exception caught at line 209, or the
\* early return of line 171 when credentials are not configured
EmailOutcomes == {"sent", "send_failed", "no_credentials"}

-----------------------------------------------------------------------------
(* The runs *)

Init ==
    /\ store \in {Missing} \cup { Stored(S) : S \in SUBSET InitiallySeen }
    /\ page = <<>>
    /\ pc = "idle"
    /\ seen = {}
    /\ doc = <<>>
    /\ current = <<>>
    /\ origin = <<>>
    /\ new = <<>>
    /\ fetch = "none"
    /\ invoked = "none"
    /\ before = store
    /\ flagged = {}
    /\ log = <<>>

\* The same page on every fetch, and nothing seen yet.
InitRerun ==
    /\ store \in {Missing, Stored({})}
    /\ page \in { <<d>> : d \in Docs }
    /\ pc = "idle"
    /\ seen = {}
    /\ doc = <<>>
    /\ current = <<>>
    /\ origin = <<>>
    /\ new = <<>>
    /\ fetch = "none"
    /\ invoked = "none"
    /\ before = store
    /\ flagged = {}
    /\ log = <<>>

\* the documents a fetch can answer with
Servable == IF page = <<>> THEN Docs ELSE {page[1]}

\* A run starts with fresh locals.
FreshRun ==
    /\ doc' = <<>>
    /\ current' = <<>>
    /\ origin' = <<>>
    /\ new' = <<>>
    /\ fetch' = "none"
    /\ invoked' = "none"
    /\ before' = store

\* main: seen_listings = load_seen_listings(), the file missing or a JSON list
LoadOk ==
    /\ pc = "idle"
    /\ Len(log) < MaxRuns
    /\ store.kind \in {"missing", "ok"}
    /\ FreshRun
    /\ seen' = LoadedSet(store)
    /\ pc' = "loaded"
    /\ UNCHANGED <<store, page, flagged, log>>

\* load_seen_listings on a file that is no JSON: json.load raises
\* JSONDecodeError, which only 'except FileNotFoundError' would catch; the
\* run ends with the exception.
LoadCorrupt ==
    /\ pc = "idle"
    /\ Len(log) < MaxRuns
    /\ store.kind = "corrupt"
    /\ FreshRun
    /\ seen' = {}
    /\ log' = Append(log, "load_error")
    /\ UNCHANGED <<store, page, pc, flagged>>

\* load_seen_listings on a file that exists and cannot be read: open raises
\* an OSError other than FileNotFoundError; the run ends with the exception.
LoadUnreadable ==
    /\ pc = "idle"
    /\ Len(log) < MaxRuns
    /\ store.kind \in {"ok", "corrupt"}
    /\ FreshRun
    /\ seen' = {}
    /\ log' = Append(log, "load_error")
    /\ UNCHANGED <<store, page, pc, flagged>>

\* scrape_listings: the fetch answers with a document
ScrapeOk ==
    /\ pc = "loaded"
    /\ \E d \in Servable :
          /\ doc' = d
          /\ current' = RecordsOf(ScrapeListings(d))
          /\ origin' = SourcesOf(ScrapeListings(d))
    /\ fetch' = "ok"
    /\ pc' = "scraped"
    /\ UNCHANGED <<store, page, seen, new, invoked, before, flagged, log>>

\* scrape_listings: requests.RequestException, return []
ScrapeFail ==
    /\ pc = "loaded"
    /\ doc' = <<>>
    /\ current' = <<>>
    /\ origin' = <<>>
    /\ fetch' = "failed"
    /\ pc' = "scraped"
    /\ UNCHANGED <<store, page, seen, new, invoked, before, flagged, log>>

\* main: if not current_listings: print warning; return
ReturnEmpty ==
    /\ pc = "scraped"
    /\ NoListings(current)
    /\ pc' = "idle"
    /\ doc' = <<>>
    /\ origin' = <<>>
    /\ log' = Append(log, IF fetch = "failed" THEN "fetch_failed" ELSE "no_listings")
    /\ UNCHANGED <<store, page, seen, current, new, fetch, invoked, before, flagged>>

\* main: the loop that finds new listings, and seen_listings.update(current_ids)
Detect ==
    /\ pc = "scraped"
    /\ ~NoListings(current)
    /\ new' = NewListings(current, seen)
    /\ seen' = UpdatedSeen(current, seen)
    /\ pc' = "save"
    /\ doc' = <<>>
    /\ origin' = <<>>
    /\ UNCHANGED <<store, page, current, fetch, invoked, before, flagged, log>>

\* save_seen_listings: the file now holds the whole list
SaveOk ==
    /\ pc = "save"
    /\ store' = Stored(seen)
    /\ pc' = "notify"
    /\ UNCHANGED <<page, seen, doc, current, origin, new, fetch, invoked, before,
                   flagged, log>>

\* save_seen_listings: open(SEEN_LISTINGS_FILE, 'w') raises, the file is untouched
SaveFailOpen ==
    /\ pc = "save"
    /\ pc' = "idle"
    /\ log' = Append(log, "save_error")
    /\ UNCHANGED <<store, page, seen, doc, current, origin, new, fetch, invoked,
                   before, flagged>>

\* save_seen_listings: open(..., 'w') has truncated the file and the write
\* raises before the list is complete
SaveFailWrite ==
    /\ pc = "save"
    /\ store' = Corrupt
    /\ pc' = "idle"
    /\ log' = Append(log, "save_error")
    /\ UNCHANGED <<page, seen, doc, current, origin, new, fetch, invoked, before,
                   flagged>>

\* main: if new_listings: print them; send_email(new_listings)
NotifyNew ==
    /\ pc = "notify"
    /\ new # <<>>
    /\ \E outcome \in EmailOutcomes :
          /\ invoked' = outcome
          /\ log' = Append(log, outcome)
    /\ flagged' = flagged \cup IdsOf(new)
    /\ pc' = "idle"
    /\ UNCHANGED <<store, page, seen, doc, current, origin, new, fetch, before>>

\* main: else: print("No new listings found.")
NothingNew ==
    /\ pc = "notify"
    /\ new = <<>>
    /\ log' = Append(log, "nothing_new")
    /\ pc' = "idle"
    /\ UNCHANGED <<store, page, seen, doc, current, origin, new, fetch, invoked,
                   before, flagged>>

Next ==
    \/ LoadOk
    \/ LoadCorrupt
    \/ LoadUnreadable
    \/ ScrapeOk
    \/ ScrapeFail
    \/ ReturnEmpty
    \/ Detect
    \/ SaveOk
    \/ SaveFailOpen
    \/ SaveFailWrite
    \/ NotifyNew
    \/ NothingNew

Spec == Init /\ [][Next]_vars

SpecRerun == InitRerun /\ [][Next]_vars

-----------------------------------------------------------------------------
(* Properties *)

\* how a run that reached the end of main is logged
Completed == EmailOutcomes \cup {"nothing_new"}

LastLogged == IF log = <<>> THEN "none" ELSE log[Len(log)]

\* the container carries a Featured tag or a sponsored footer
IsPromoted(e) == (\E k \in 1..Len(e.tags) : e.tags[k] = "Featured") \/ e.sponsored

\* the container has an address link with an href
HasUsableLink(e) == AddressLink(e) # <<>> /\ AddressLink(e)[1].hasHref

\* the indices of doc the for loop visits
Visited == { FirstN(ListingElements(doc), ListingCap)[k] :
                 k \in 1..Len(FirstN(ListingElements(doc), ListingCap)) }

Emitted == { origin[k] : k \in 1..Len(origin) }

\* records with an identifier that an earlier record of the list has are dropped
DedupFirst(records) ==
    SelectSeq([k \in 1..Len(records) |-> [at |-> k, rec |-> records[k]]],
              LAMBDA x : \A j \in 1..(x.at - 1) : records[j].id # x.rec.id)

\* the last segment of the URL that is not empty, <<>> when there is none
LastNonEmptySegment(url) ==
    LET segs == SelectSeq(SplitSlash(url), LAMBDA seg : seg # <<>>)
    IN  IF segs = <<>> THEN <<>> ELSE segs[Len(segs)]

\* the file t holds at least what the file s held
Grows(s, t) ==
    \/ t = s
    \/ s.kind # "corrupt" /\ t.kind = "ok" /\ LoadedSet(s) \subseteq t.ids

\* C1: with the same document on every fetch and nothing seen at the start,
\* the first run reports every extracted record as new, and a run that
\* follows a completed run reports nothing as new.
C1_RerunReportsNothing ==
    pc = "notify" =>
        /\ log = <<>> => new = current
        /\ LastLogged \in Completed => new = <<>>

C1_SecondRunReached ==
    /\ pc = "notify"
    /\ Len(log) = 1
    /\ log[1] \in Completed
    /\ Len(current) > 0
    /\ new = <<>>

\* C2: when the notifier is invoked the file already holds the updated
\* seen-set, and an identifier reported as new by an earlier run is not among
\* the new listings of a later run, however the earlier notifications ended.
C2_NeverFlaggedTwice ==
    /\ pc = "notify" =>
          /\ IdsOf(new) \cap flagged = {}
          /\ store = Stored(seen)
          /\ IdsOf(new) \subseteq store.ids
    /\ invoked # "none" =>
          /\ store = Stored(seen)
          /\ IdsOf(new) \subseteq store.ids

C2_SeenAgainAfterFailedMail ==
    /\ pc = "notify"
    /\ \E k \in 1..Len(log) : log[k] = "send_failed"
    /\ IdsOf(current) \cap flagged # {}
    /\ new # <<>>

\* C3: the new listings are the records of the current list whose identifier
\* was not in the prior seen-set, in order, only the first record of each
\* identifier.
C3_NewIsDeduplicated ==
    pc \in {"save", "notify"} =>
        LET fresh == SelectSeq(current, LAMBDA r : r.id \notin LoadedSet(before))
            kept  == DedupFirst(fresh)
        IN  new = [k \in 1..Len(kept) |-> kept[k].rec]

\* C4: apart from a save that fails, every step leaves the file holding at
\* least the identifiers it held, and after the save of a run that extracted a
\* non-empty list the file holds the prior set united with the identifiers of
\* every extracted record.
C4_SeenSetOnlyGrows ==
    /\ [][SaveFailWrite \/ Grows(store, store')]_vars
    /\ [](  (pc = "notify" \/ (pc = "idle" /\ LastLogged \in Completed))
            => store = Stored(LoadedSet(before) \cup IdsOf(current)) )

C4_UnionReached ==
    /\ pc = "notify"
    /\ before.kind = "ok"
    /\ ~(before.ids \subseteq IdsOf(current))
    /\ ~(IdsOf(current) \subseteq before.ids)

\* C5: a run whose fetch failed ends after the scrape: the file is as it was
\* when the run started and the notifier is not invoked.
C5_FetchFailureLeavesStore ==
    fetch = "failed" =>
        /\ store = before
        /\ invoked = "none"
        /\ new = <<>>
        /\ pc \in {"scraped", "idle"}

C5_FetchFailedRunEnded ==
    /\ fetch = "failed"
    /\ pc = "idle"
    /\ LastLogged = "fetch_failed"
    /\ before.kind = "ok"
    /\ before.ids # {}

\* C6: load_seen_listings never fails: no run ends with an error of the load.
C6_LoadNeverFails ==
    \A k \in 1..Len(log) : log[k] # "load_error"

\* C7: no emitted record comes from a container with a Featured tag or a
\* sponsored footer, and a visited container that follows such a container is
\* still emitted when it is not promoted itself and has a usable link.
C7_PromotedNeverEmitted ==
    (pc = "scraped" /\ fetch = "ok") =>
        /\ \A i \in Emitted : ~IsPromoted(doc[i])
        /\ \A i, j \in Visited :
              (i < j /\ IsPromoted(doc[i]) /\ ~IsPromoted(doc[j]) /\ HasUsableLink(doc[j]))
              => j \in Emitted

C7_PromotedSkippedNextEmitted ==
    /\ pc = "scraped"
    /\ \E i, j \in Visited :
          /\ i < j
          /\ IsPromoted(doc[i])
          /\ HasUsableLink(doc[i])
          /\ origin = <<j>>

\* C8: every emitted record has a non-empty identifier, the last non-empty
\* segment of its URL.
C8_IdIsLastNonEmptySegment ==
    pc = "scraped" =>
        \A k \in 1..Len(current) :
            /\ current[k].id # <<>>
            /\ current[k].id = LastNonEmptySegment(current[k].url)

\* C9: the file holds the complete set of the run's start or the complete
\* updated set, never partial text, and a run whose save failed has not
\* invoked the notifier.
C9_StoreNeverPartial ==
    /\ store.kind # "corrupt"
    /\ LastLogged = "save_error" => (invoked = "none" /\ store \in {before, Stored(seen)})

\* C10: records come from class-pattern matches only when no div has the
\* listing-card marker; then every one of the first ListingCap matches that is
\* not skipped and has a usable link is emitted, and each record is the one
\* parsed from its container.
C10_FallbackOnlyWhenPrimaryEmpty ==
    (pc = "scraped" /\ fetch = "ok") =>
        LET P == { i \in 1..Len(doc) : doc[i].testid }
            F == { i \in 1..Len(doc) : doc[i].cardClass }
        IN  /\ P # {} => Emitted \subseteq P
            /\ P = {} => Emitted \subseteq F
            /\ P = {} =>
                  \A i \in F :
                      ( /\ Cardinality({ j \in F : j <= i }) <= ListingCap
                        /\ ~Skipped(doc[i])
                        /\ HasUsableLink(doc[i]) ) => i \in Emitted
            /\ \A k \in 1..Len(origin) : <<current[k]>> = ParseElement(doc[origin[k]])

C10_FallbackUsed ==
    /\ pc = "scraped"
    /\ \A i \in 1..Len(doc) : ~doc[i].testid
    /\ \E i \in 1..Len(doc) : doc[i].cardClass
    /\ Len(current) > 0

====
